---- MODULE Spec2Model ----
(***************************************************************************)
(* Chunking, ingestion and source removal of the RAG pipeline.             *)
(*                                                                         *)
(* SpecChunk runs split_text_into_chunks (utils/text_processing.py) one    *)
(* loop iteration per step on every bounded input.  Spec runs the          *)
(* ingestion side of the pipeline (DocumentProcessorAgent over             *)
(* OpenSearchService) against an index of persisted entries.               *)
(***************************************************************************)
EXTENDS Integers, Sequences, FiniteSets, TLC

(***************************************************************************)
(* Bounds of the model.                                                    *)
(***************************************************************************)
MaxLen == 5
MaxChunk == 4
MaxOverlap == 2
\* documents the index holds at most: no ingestion starts that could exceed it
MaxDocs == 4
MaxBatch == 2
MaxTopK == 2

\* Iterations recorded for one call; only chunk_size = 0 (start never
\* advances) reaches it.
MaxIter == MaxLen + 1

(***************************************************************************)
(* Characters.  A text is a sequence of one-character strings.             *)
(***************************************************************************)
\* \s of the regular expressions, and what str.strip() removes
Whitespace == {" ", "\t", "\n"}
\* \w
WordChars == {"a"}
\* a character outside [\w\s.,!?;:\-()\[\]{}]
SpecialChars == {"#"}
\* the characters the chunker is run on
Alphabet == {"a", " ", "\t", "#"}

Texts == UNION {[1..n -> Alphabet] : n \in 0..MaxLen}

(***************************************************************************)
(* clean_text                                                              *)
(***************************************************************************)
\* re.sub(r'\s+', ' ', text): every maximal run of whitespace becomes " "
RECURSIVE CollapseWhitespace(_)
CollapseWhitespace(t) ==
    IF t = <<>> THEN <<>>
    ELSE IF Head(t) \in Whitespace
         THEN IF Len(t) > 1 /\ t[2] \in Whitespace
              THEN CollapseWhitespace(Tail(t))
              ELSE <<" ">> \o CollapseWhitespace(Tail(t))
         ELSE <<Head(t)>> \o CollapseWhitespace(Tail(t))

\* re.sub(r'[^\w\s\.\,\!\?\;\:\-\(\)\[\]\{\}]', '', text)
IsKept(c) == c \notin SpecialChars
RemoveSpecial(t) == SelectSeq(t, IsKept)

\* str.strip()
RECURSIVE LStrip(_)
LStrip(t) ==
    IF t # <<>> /\ Head(t) \in Whitespace THEN LStrip(Tail(t)) ELSE t

RECURSIVE RStrip(_)
RStrip(t) ==
    IF t # <<>> /\ t[Len(t)] \in Whitespace
    THEN RStrip(SubSeq(t, 1, Len(t) - 1))
    ELSE t

Strip(t) == LStrip(RStrip(t))

clean_text(t) == Strip(RemoveSpecial(CollapseWhitespace(t)))

(***************************************************************************)
(* split_text_into_chunks                                                  *)
(***************************************************************************)
\* A Python slice bound: negative counts from the end, then clamped to 0..len
SliceBound(i, len) ==
    IF i < 0 THEN (IF len + i < 0 THEN 0 ELSE len + i)
    ELSE IF i > len THEN len ELSE i

\* text[start:end]
PySliceOffByOne(t, s, e) ==
    SubSeq(t, SliceBound(s, Len(t)) + 2, SliceBound(e, Len(t)))

PySlice(t, s, e) ==
    SubSeq(t, SliceBound(s, Len(t)) + 1, SliceBound(e, Len(t)))

\* The slice bounds of one iteration: end is taken from the start the loop
\* arrived with, and only then is start moved back by the overlap.
WindowEndNotAdvancing(s, size) == IF s > 0 THEN s ELSE s + size

WindowEnd(s, size) == s + size
WindowStartNoOverlap(s, overlap) == s

WindowStart(s, overlap) == IF s > 0 THEN s - overlap ELSE s

\* chunks after one iteration: the cleaned slice, kept when non-empty
AppendChunkAlways(cs, chunk) == Append(cs, chunk)

AppendChunk(cs, chunk) == IF chunk # <<>> THEN Append(cs, chunk) ELSE cs

\* the whole loop from start s with the chunks cs collected so far
RECURSIVE SplitLoop(_, _, _, _, _)
SplitLoop(t, size, overlap, s, cs) ==
    IF s < Len(t)
    THEN LET end == WindowEnd(s, size)
             chunk == clean_text(PySlice(t, WindowStart(s, overlap), end))
         IN  SplitLoop(t, size, overlap, end, AppendChunk(cs, chunk))
    ELSE cs

\* split_text_into_chunks(text, chunk_size, chunk_overlap), chunk_size >= 1
split_text_into_chunks(t, size, overlap) == SplitLoop(t, size, overlap, 0, <<>>)

(***************************************************************************)
(* Files, sources and chunk ids of the ingestion side.                     *)
(***************************************************************************)
Files == {"doc.txt", "blank.txt", "memo.rtf"}

\* Path(file_path).suffix.lower()
FileSuffix(f) ==
    CASE f = "doc.txt" -> ".txt"
      [] f = "blank.txt" -> ".txt"
      [] f = "memo.rtf" -> ".rtf"

\* what reading the file returns
FileText(f) ==
    CASE f = "doc.txt" -> <<"a", "\t", " ", "a", "#", "a">>
      [] f = "blank.txt" -> <<" ", "\t">>
      [] f = "memo.rtf" -> <<"a">>

SupportedSuffixes == {".txt", ".pdf", ".docx", ".html", ".htm"}

\* source_name=None
NoSource == "<None>"
SourceNames == {"doc.txt_1"}

\* source_name, or Path(file_path).name when it is None
SourceOf(f, source_name) == IF source_name = NoSource THEN f ELSE source_name

\* every source an entry can carry
Sources == SourceNames \cup Files

\* the values uuid.uuid4().hex[:8] takes in the model
Salts == {"0000000a", "0000000b"}

\* the values of settings.chunk_size and settings.chunk_overlap the
\* environment configures
SettingsChoices ==
    { [chunk_size |-> 2, chunk_overlap |-> 1],
      [chunk_size |-> 4, chunk_overlap |-> 1] }

\* f"{source_name}_{i}_{uuid.uuid4().hex[:8]}"
ChunkIdWithoutIndex(source_name, i, salt) == source_name \o "_" \o salt

ChunkId(source_name, i, salt) ==
    source_name \o "_" \o ToString(i) \o "_" \o salt

\* the vector the embedding model returns for a text
Embedding(t) == <<"vector", t>>

\* preprocess_document(text, source)["chunks"]
PreprocessChunks(t, cfg) ==
    split_text_into_chunks(clean_text(t), cfg.chunk_size, cfg.chunk_overlap)

\* documents_to_index, salts[i] being the uuid drawn for chunk i-1
DocumentsToIndex(source_name, cks, salts) ==
    [i \in 1..Len(cks) |->
        [content |-> cks[i],
         embedding |-> Embedding(cks[i]),
         metadata |-> [chunk_index |-> i - 1, total_chunks |-> Len(cks)],
         source |-> source_name,
         chunk_id |-> ChunkId(source_name, i - 1, salts[i])]]

\* client.index(index=..., body=index_doc, id=doc["chunk_id"]): the entry
\* stored under that id replaces any entry already stored under it
ClientIndex(idx, doc) ==
    {e \in idx : e.id # doc.chunk_id}
        \cup { [id |-> doc.chunk_id,
                content |-> doc.content,
                content_vector |-> doc.embedding,
                metadata |-> doc.metadata,
                source |-> doc.source,
                chunk_id |-> doc.chunk_id] }

\* client.delete_by_query with {"term": {"source": source}}: what is left
DeleteOneBySource(idx, source) ==
    IF \E e \in idx : e.source = source
    THEN idx \ {CHOOSE e \in idx : e.source = source}
    ELSE idx

DeleteByQuery(idx, source) == {e \in idx : e.source # source}

\* response['deleted']
DeletedCount(idx, source) == Cardinality({e \in idx : e.source = source})

NoResult == [op |-> "none"]
NoIngest == [file_path |-> "<none>"]

(***************************************************************************)
(* Query side: search_similar and the results of process_query.            *)
(***************************************************************************)
\* the questions callers ask
Queries == {<<"a">>, <<"a", "a", "#">>}
\* the context texts of process_query_with_context
Contexts == {<<"a", "\t">>}

RECURSIVE CommonPrefix(_, _)
CommonPrefix(a, b) ==
    IF a = <<>> \/ b = <<>> \/ Head(a) # Head(b) THEN 0
    ELSE 1 + CommonPrefix(Tail(a), Tail(b))

\* _score of a stored vector against the query vector: a similarity, 0 for
\* equal texts and lower the more the texts differ
Similarity(qv, dv) ==
    2 * CommonPrefix(qv[2], dv[2]) - Len(qv[2]) - Len(dv[2])

\* the entries of S no other entry of S outscores
BestOf(S, qv) ==
    {e \in S : \A o \in S :
        Similarity(qv, o.content_vector) <= Similarity(qv, e.content_vector)}

\* every order of S by descending score (entries of equal score in any order)
RECURSIVE RankedOrders(_, _)
RankedOrders(S, qv) ==
    IF S = {} THEN {<<>>}
    ELSE UNION { {<<e>> \o r : r \in RankedOrders(S \ {e}, qv)} :
                 e \in BestOf(S, qv) }

\* one element of results in search_similar, built from a hit
HitResult(e, qv) ==
    [content |-> e.content,
     metadata |-> e.metadata,
     source |-> e.source,
     chunk_id |-> e.chunk_id,
     score |-> Similarity(qv, e.content_vector)]

FirstK(r, k) == SubSeq(r, 1, IF k < Len(r) THEN k ELSE Len(r))

\* the result lists client.search with size k can give search_similar
SearchResults(idx, qv, k) ==
    { [i \in 1..Len(FirstK(r, k)) |-> HitResult(r[i], qv)] :
        r \in RankedOrders(idx, qv) }

\* doc["content"][:200] + "..." if len(doc["content"]) > 200 else doc["content"]
ExcerptLen == 200
Excerpt(content) ==
    IF Len(content) > ExcerptLen
    THEN SubSeq(content, 1, ExcerptLen) \o <<".", ".", ".">>
    ELSE content

\* the sources list of process_query
SourcesOfReversed(docs, include_sources) ==
    IF include_sources
    THEN [i \in 1..Len(docs) |->
            [content |-> Excerpt(docs[Len(docs) + 1 - i].content),
             source |-> docs[Len(docs) + 1 - i].source,
             score |-> docs[Len(docs) + 1 - i].score,
             chunk_id |-> docs[Len(docs) + 1 - i].chunk_id]]
    ELSE <<>>

SourcesOf(docs, include_sources) ==
    IF include_sources
    THEN [i \in 1..Len(docs) |->
            [content |-> Excerpt(docs[i].content),
             source |-> docs[i].source,
             score |-> docs[i].score,
             chunk_id |-> docs[i].chunk_id]]
    ELSE <<>>

RECURSIVE SumScores(_)
SumScores(docs) ==
    IF docs = <<>> THEN 0 ELSE Head(docs).score + SumScores(Tail(docs))

\* what generate_response_with_rag answers from the question and the chunks
RagResponse(cleaned_query, docs) ==
    <<"answer", cleaned_query, [i \in 1..Len(docs) |-> docs[i].content]>>

\* the dictionary returned when similar_docs is empty
NoMatchResultAsSuccess(query) ==
    [op |-> "process_query", success |-> TRUE,
     response |->
         "I couldn't find any relevant information to answer your question.",
     sources |-> <<>>, query |-> query]

NoMatchResult(query) ==
    [op |-> "process_query", success |-> FALSE,
     response |->
         "I couldn't find any relevant information to answer your question.",
     sources |-> <<>>, query |-> query]

\* the dictionary of the except branch
QueryErrorResult(query, err) ==
    [op |-> "process_query", success |-> FALSE,
     response |-> "An error occurred while processing your query: " \o err,
     sources |-> <<>>, query |-> query]

\* the dictionary returned at the end of process_query
QuerySuccessResult(query, docs, include_sources) ==
    [op |-> "process_query", success |-> TRUE,
     response |-> RagResponse(clean_text(query), docs),
     sources |-> SourcesOf(docs, include_sources),
     query |-> query,
     num_sources |-> Len(docs),
     avg_score |-> [sum |-> SumScores(docs), count |-> Len(docs)]]

\* a call of a collaborator and whether it returned (ok) or raised
Call(name, ok) == [call |-> name, ok |-> ok]

\* process_query(query, top_k, include_sources) on the index idx: every
\* way it can end, with similar_docs as it stood, the dictionary returned
\* and the collaborator calls made
ProcessQueryOutcomes(idx, query, top_k, include_sources) ==
    LET qv == Embedding(clean_text(query))
        embed == "generate_embeddings"
        search == "search"
        generate == "generate_response"
    IN  \* generate_embeddings raises
        { [similar_docs |-> <<>>,
           result |-> QueryErrorResult(query, "embedding error"),
           calls |-> <<Call(embed, FALSE)>>] }
        \cup
        \* client.search raises: search_similar returns []
        { [similar_docs |-> <<>>,
           result |-> NoMatchResult(query),
           calls |-> <<Call(embed, TRUE), Call(search, FALSE)>>] }
        \cup
        \* the search finds nothing
        { [similar_docs |-> docs,
           result |-> NoMatchResult(query),
           calls |-> <<Call(embed, TRUE), Call(search, TRUE)>>] :
             docs \in {d \in SearchResults(idx, qv, top_k) : d = <<>>} }
        \cup
        \* generate_response raises
        { [similar_docs |-> docs,
           result |-> QueryErrorResult(query, "generation error"),
           calls |-> <<Call(embed, TRUE), Call(search, TRUE),
                       Call(generate, FALSE)>>] :
             docs \in {d \in SearchResults(idx, qv, top_k) : d # <<>>} }
        \cup
        { [similar_docs |-> docs,
           result |-> QuerySuccessResult(query, docs, include_sources),
           calls |-> <<Call(embed, TRUE), Call(search, TRUE),
                       Call(generate, TRUE)>>] :
             docs \in {d \in SearchResults(idx, qv, top_k) : d # <<>>} }

\* f"Context: {context}\n\nQuestion: {query}"
EnhancedQuery(query, context) ==
    <<"C", "o", "n", "t", "e", "x", "t", ":", " ">> \o context
        \o <<"\n", "\n", "Q", "u", "e", "s", "t", "i", "o", "n", ":", " ">>
        \o query

\* result["context_used"] = context
WithContextUsed(result, context) ==
    [k \in DOMAIN result \cup {"context_used"} |->
        IF k = "context_used" THEN context ELSE result[k]]

VARIABLES
    text,           \* split_text_into_chunks: argument text
    chunk_size,     \* argument chunk_size
    chunk_overlap,  \* argument chunk_overlap
    start,          \* local start, as the while condition reads it
    chunks,         \* local chunks
    windows,        \* the (start, end) each iteration sliced with
    cpc,            \* "loop" inside the while, "done" after the return
    settings,       \* settings.chunk_size, settings.chunk_overlap
    index,          \* the entries the OpenSearch index holds
    ppc,            \* process_file: "idle", or "indexing" in index_documents
    file_path,      \* process_file: argument file_path of the call in flight
    source_name,    \* process_file: local source_name of the call in flight
    pending,        \* process_file: documents_to_index
    written,        \* index_documents: documents the for loop has indexed
    ret,            \* what the call that returned last returned
    lastIngest,     \* the last successful process_file, while nothing else
                    \* has touched the index since: its arguments, the ids
                    \* it assigned, the document count it left
    bpc,            \* the batch call: "idle", "ingest", "query", "directory"
                    \* (then "files"), "done", or "stalled" in a collaborator
                    \* call that never returns
    batch_inputs,   \* argument file_paths or queries of the batch call
    batch_names,    \* argument source_names of ingest_documents
    batch_top_k,    \* argument top_k of batch_process_queries
    results,        \* local results of the batch call
    similar_docs,   \* process_query: local similar_docs of the last call
    calls,          \* the collaborator calls the last facade operation made
    request         \* the last call a caller made of the read side or of
                    \* reset, with its arguments

chunkVars == <<text, chunk_size, chunk_overlap, start, chunks, windows, cpc>>

pipeVars ==
    <<settings, index, ppc, file_path, source_name, pending, written, ret,
      lastIngest>>

facadeVars ==
    <<bpc, batch_inputs, batch_names, batch_top_k, results, similar_docs,
      calls, request>>

vars == <<chunkVars, pipeVars, facadeVars>>

\* the pipeline before any call
PipeIdle ==
    /\ index = {}
    /\ ppc = "idle"
    /\ file_path = "<none>"
    /\ source_name = "<none>"
    /\ pending = <<>>
    /\ written = 0
    /\ ret = NoResult
    /\ lastIngest = NoIngest

\* source_names=None; the test "source_names and ..." takes None and the
\* empty list alike
NoNames == <<>>
NoRequest == [command |-> "none"]

\* no batch under way, no query made, no request received
FacadeIdle ==
    /\ bpc = "idle"
    /\ batch_inputs = <<>>
    /\ batch_names = NoNames
    /\ batch_top_k = 0
    /\ results = <<>>
    /\ similar_docs = <<>>
    /\ calls = <<>>
    /\ request = NoRequest

\* no call of split_text_into_chunks under way
ChunkIdle ==
    /\ text = <<>>
    /\ chunk_size = 0
    /\ chunk_overlap = 0
    /\ start = 0
    /\ chunks = <<>>
    /\ windows = <<>>
    /\ cpc = "done"

ChunkInit ==
    /\ text \in Texts
    /\ chunk_size \in 0..MaxChunk
    /\ chunk_overlap \in 0..MaxOverlap
    /\ start = 0
    /\ chunks = <<>>
    /\ windows = <<>>
    /\ cpc = "loop"
    /\ settings = [chunk_size |-> chunk_size, chunk_overlap |-> chunk_overlap]
    /\ PipeIdle
    /\ FacadeIdle

\* one pass of the while body
ChunkStep ==
    /\ cpc = "loop"
    /\ start < Len(text)
    /\ Len(windows) < MaxIter
    /\ LET end == WindowEnd(start, chunk_size)
           s   == WindowStart(start, chunk_overlap)
           chunk == clean_text(PySlice(text, s, end))
       IN  /\ chunks' = AppendChunk(chunks, chunk)
           /\ windows' = Append(windows, [start |-> s, end |-> end])
           /\ start' = end
    /\ UNCHANGED <<text, chunk_size, chunk_overlap, cpc>>
    /\ UNCHANGED <<pipeVars, facadeVars>>

\* the while condition fails: return chunks
ChunkReturn ==
    /\ cpc = "loop"
    /\ ~(start < Len(text))
    /\ cpc' = "done"
    /\ UNCHANGED <<text, chunk_size, chunk_overlap, start, chunks, windows>>
    /\ UNCHANGED <<pipeVars, facadeVars>>

ChunkNext == ChunkStep \/ ChunkReturn

SpecChunk == ChunkInit /\ [][ChunkNext]_vars

(***************************************************************************)
(* clean_text applied to a text, and then to its own output.               *)
(***************************************************************************)
CleanInit ==
    /\ text \in Texts
    /\ chunk_size = 0
    /\ chunk_overlap = 0
    /\ start = 0
    /\ chunks = <<>>
    /\ windows = <<>>
    /\ cpc = "done"
    /\ settings \in SettingsChoices
    /\ PipeIdle
    /\ FacadeIdle

\* cleaned = clean_text(text)
CleanText ==
    /\ ret = NoResult
    /\ ret' = [op |-> "clean_text", text |-> clean_text(text)]
    /\ UNCHANGED <<settings, index, ppc, file_path, source_name, pending,
                   written, lastIngest>>
    /\ UNCHANGED <<chunkVars, facadeVars>>

\* clean_text applied to what it returned
CleanTextAgain ==
    /\ ret.op = "clean_text"
    /\ text # ret.text
    /\ text' = ret.text
    /\ ret' = [op |-> "clean_text", text |-> clean_text(ret.text)]
    /\ UNCHANGED <<chunk_size, chunk_overlap, start, chunks, windows, cpc>>
    /\ UNCHANGED <<settings, index, ppc, file_path, source_name, pending,
                   written, lastIngest>>
    /\ UNCHANGED facadeVars

CleanNext == CleanText \/ CleanTextAgain

SpecClean == CleanInit /\ [][CleanNext]_vars

(***************************************************************************)
(* DocumentProcessorAgent.process_file and remove_source.  process_file    *)
(* runs up to the call of index_documents in one step; every client.index  *)
(* call, and the final refresh, is a step of its own, so that a            *)
(* remove_source of another request can fall between two of them.          *)
(***************************************************************************)
Init ==
    /\ ChunkIdle
    /\ settings \in SettingsChoices
    /\ PipeIdle
    /\ FacadeIdle

\* the dictionary of the except branch
FailureResult(f, src, err) ==
    [op |-> "process_file", success |-> FALSE, source |-> src,
     error |-> err, file_path |-> f]

\* the dictionary returned after index_documents
IndexedResult(f, src, ok, n) ==
    [op |-> "process_file", success |-> ok, source |-> src,
     total_chunks |-> n, file_path |-> f]

\* _extract_text_from_file raises: unsupported suffix, or the read fails
ProcessFileExtractionFails(f, source_arg) ==
    /\ ppc = "idle"
    /\ \E err \in (IF FileSuffix(f) \in SupportedSuffixes
                   THEN {"read error"}
                   ELSE {"Unsupported file type: " \o FileSuffix(f)}) :
           ret' = FailureResult(f, SourceOf(f, source_arg), err)
    /\ lastIngest' = NoIngest
    /\ UNCHANGED <<settings, index, ppc, file_path, source_name, pending,
                   written>>
    /\ UNCHANGED <<chunkVars, facadeVars>>

\* a process_file that indexes each chunk as soon as it is embedded, so the
\* chunks before the failing one are written
ProcessFileEmbeddingFailsAfterWrite(f, source_arg) ==
    /\ ppc = "idle"
    /\ FileSuffix(f) \in SupportedSuffixes
    /\ LET cks == PreprocessChunks(FileText(f), settings)
           src == IF source_arg = NoSource THEN f ELSE source_arg
       IN  /\ cks # <<>>
           /\ Cardinality(index) < MaxDocs
           /\ index' = index \cup
                  { [id |-> src \o "_0_0000000a",
                     content |-> cks[1],
                     content_vector |-> <<"vector", cks[1]>>,
                     metadata |-> [chunk_index |-> 0,
                                   total_chunks |-> Len(cks)],
                     source |-> src,
                     chunk_id |-> src \o "_0_0000000a"] }
           /\ ret' = [op |-> "process_file", success |-> FALSE,
                      source |-> src, error |-> "embedding error",
                      file_path |-> f]
    /\ lastIngest' = [file_path |-> "<none>"]
    /\ UNCHANGED <<settings, ppc, file_path, source_name, pending, written>>
    /\ UNCHANGED <<text, chunk_size, chunk_overlap, start, chunks, windows,
                   cpc>>
    /\ UNCHANGED <<bpc, batch_inputs, batch_names, batch_top_k, results,
                   similar_docs, calls, request>>

\* generate_embeddings raises on one of the chunks
ProcessFileEmbeddingFails(f, source_arg) ==
    /\ ppc = "idle"
    /\ FileSuffix(f) \in SupportedSuffixes
    /\ PreprocessChunks(FileText(f), settings) # <<>>
    /\ ret' =
           FailureResult(f, SourceOf(f, source_arg), "embedding error")
    /\ lastIngest' = NoIngest
    /\ UNCHANGED <<settings, index, ppc, file_path, source_name, pending,
                   written>>
    /\ UNCHANGED <<chunkVars, facadeVars>>

\* text extracted, chunks embedded, documents_to_index built:
\* index_documents is entered
ProcessFilePrepare(f, source_arg) ==
    /\ ppc = "idle"
    /\ FileSuffix(f) \in SupportedSuffixes
    /\ LET cks == PreprocessChunks(FileText(f), settings)
       IN  \E salts \in [1..Len(cks) -> Salts] :
               pending' = DocumentsToIndex(SourceOf(f, source_arg), cks, salts)
    /\ file_path' = f
    /\ source_name' = SourceOf(f, source_arg)
    /\ written' = 0
    /\ ppc' = "indexing"
    /\ Cardinality(index) + Len(pending') <= MaxDocs
    /\ UNCHANGED <<settings, index, ret, lastIngest>>
    /\ UNCHANGED <<chunkVars, facadeVars>>

\* one pass of the for loop of index_documents
IndexDocument ==
    /\ ppc = "indexing"
    /\ written < Len(pending)
    /\ index' = ClientIndex(index, pending[written + 1])
    /\ written' = written + 1
    /\ UNCHANGED <<settings, ppc, file_path, source_name, pending, ret,
                   lastIngest>>
    /\ UNCHANGED <<chunkVars, facadeVars>>

\* the chunk ids the call in flight assigned
PendingIds == {pending[i].chunk_id : i \in 1..Len(pending)}

\* client.index or indices.refresh raises: index_documents returns False
IndexDocumentsFails ==
    /\ ppc = "indexing"
    /\ ppc' = "idle"
    /\ ret' = IndexedResult(file_path, source_name, FALSE, Len(pending))
    /\ lastIngest' = NoIngest
    /\ file_path' = "<none>"
    /\ source_name' = "<none>"
    /\ pending' = <<>>
    /\ written' = 0
    /\ UNCHANGED <<settings, index>>
    /\ UNCHANGED <<chunkVars, facadeVars>>

\* the loop is over and indices.refresh succeeds: index_documents returns True
IndexDocumentsSucceeds ==
    /\ ppc = "indexing"
    /\ written = Len(pending)
    /\ ppc' = "idle"
    /\ ret' = IndexedResult(file_path, source_name, TRUE, Len(pending))
    /\ lastIngest' =
           [file_path |-> file_path, source |-> source_name,
            ids |-> PendingIds, count |-> Cardinality(index)]
    /\ file_path' = "<none>"
    /\ source_name' = "<none>"
    /\ pending' = <<>>
    /\ written' = 0
    /\ UNCHANGED <<settings, index>>
    /\ UNCHANGED <<chunkVars, facadeVars>>

\* remove_source(source_name): delete_documents_by_source
RemoveSource(source) ==
    /\ \E ok \in BOOLEAN :
           /\ index' = (IF ok THEN DeleteByQuery(index, source) ELSE index)
           /\ ret' =
                  (IF ok
                   THEN [op |-> "remove_source", success |-> TRUE,
                         source |-> source,
                         deleted |-> DeletedCount(index, source)]
                   ELSE [op |-> "remove_source", success |-> FALSE,
                         source |-> source])
    /\ lastIngest' = NoIngest
    /\ UNCHANGED <<settings, ppc, file_path, source_name, pending, written>>
    /\ UNCHANGED <<chunkVars, facadeVars>>

Next ==
    \/ \E f \in Files, source_arg \in SourceNames \cup {NoSource} :
           \/ ProcessFileExtractionFails(f, source_arg)
           \/ ProcessFileEmbeddingFails(f, source_arg)
           \/ ProcessFilePrepare(f, source_arg)
    \/ IndexDocument
    \/ IndexDocumentsSucceeds
    \/ IndexDocumentsFails
    \/ \E source \in Sources : RemoveSource(source)

Spec == Init /\ [][Next]_vars

(***************************************************************************)
(* RAGPipeline.ingest_documents and QueryAgent.batch_process_queries: one  *)
(* batch call per behaviour, its arguments drawn at the start.             *)
(***************************************************************************)
RECURSIVE IndexAll(_, _)
\* the for loop of index_documents run to its end
IndexAll(idx, docs) ==
    IF docs = <<>> THEN idx
    ELSE IndexAll(ClientIndex(idx, Head(docs)), Tail(docs))

\* the index after process_file(f, source_arg) succeeded on idx, every
\* uuid drawn being salt
IndexedFile(idx, f, source_arg, cfg, salt) ==
    LET cks == PreprocessChunks(FileText(f), cfg)
    IN  IndexAll(idx, DocumentsToIndex(SourceOf(f, source_arg), cks,
                                       [i \in 1..Len(cks) |-> salt]))

\* index contents queries are run against: empty, after one ingestion,
\* after two
IndexChoices(cfg) ==
    LET one == IndexedFile({}, "doc.txt", NoSource, cfg, "0000000a")
    IN  { {}, one, IndexedFile(one, "doc.txt", "doc.txt_1", cfg, "0000000b") }

SeqsUpTo(S, n) == UNION { [1..m -> S] : m \in 0..n }

\* the pipeline with no call in flight, whatever the index holds
NoCallInFlight ==
    /\ ppc = "idle"
    /\ file_path = "<none>"
    /\ source_name = "<none>"
    /\ pending = <<>>
    /\ written = 0
    /\ ret = NoResult
    /\ lastIngest = NoIngest

\* the directories ingest_directory is called on: one holding the three
\* files, one holding none, one that does not exist
Directories == {"docs", "empty_dir", "missing_dir"}
DirectoryExists(d) == d # "missing_dir"

\* directory.rglob('*'), in the order the file system lists them
DirectoryListing(d) ==
    IF d = "docs" THEN <<"memo.rtf", "doc.txt", "blank.txt">> ELSE <<>>

\* [f for f in ... if f.is_file() and f.suffix.lower() in supported_extensions]
SupportedFiles(listing) ==
    SelectSeq(listing, LAMBDA f : FileSuffix(f) \in SupportedSuffixes)

BatchInit ==
    /\ ChunkIdle
    /\ settings \in SettingsChoices
    /\ NoCallInFlight
    /\ similar_docs = <<>>
    /\ calls = <<>>
    /\ \/ /\ bpc = "ingest"
          /\ request = NoRequest
          /\ index = {}
          /\ batch_inputs \in SeqsUpTo(Files, MaxBatch)
          /\ batch_names \in SeqsUpTo(SourceNames, MaxBatch)
          /\ batch_top_k = 0
          /\ results = [total_files |-> Len(batch_inputs), successful |-> 0,
                        failed |-> 0, results |-> <<>>]
       \/ /\ bpc = "query"
          /\ request = NoRequest
          /\ index \in IndexChoices(settings)
          /\ batch_inputs \in SeqsUpTo(Queries, MaxBatch)
          /\ batch_names = NoNames
          /\ batch_top_k \in 0..MaxTopK
          /\ results = <<>>
       \/ /\ bpc = "directory"
          /\ request \in { [command |-> "ingest_directory", directory_path |-> d] :
                            d \in Directories }
          /\ index = {}
          /\ batch_inputs = <<>>
          /\ batch_names = NoNames
          /\ batch_top_k = 0
          /\ results = <<>>

\* the i of enumerate(file_paths) the for loop is at
IngestPosition == Len(results.results)

\* source_names[i] if source_names and i < len(source_names) else None
SourceNameArg(names, i) ==
    IF names # <<>> /\ i < Len(names) THEN names[i + 1] ELSE NoSource

\* the for loop is about to call process_file for item i
IngestCanCall ==
    /\ bpc = "ingest"
    /\ ret = NoResult
    /\ IngestPosition < Len(batch_inputs)

IngestExtractionFails ==
    /\ IngestCanCall
    /\ ProcessFileExtractionFails(batch_inputs[IngestPosition + 1],
           SourceNameArg(batch_names, IngestPosition))

IngestEmbeddingFails ==
    /\ IngestCanCall
    /\ ProcessFileEmbeddingFails(batch_inputs[IngestPosition + 1],
           SourceNameArg(batch_names, IngestPosition))

IngestPrepare ==
    /\ IngestCanCall
    /\ ProcessFilePrepare(batch_inputs[IngestPosition + 1],
           SourceNameArg(batch_names, IngestPosition))

\* results["results"].append(result) and the counter it bumps
RecordCountingAllSuccessful(res, result) ==
    [res EXCEPT !.results = Append(@, result),
                !.successful = @ + 1]

RecordPrepending(res, result) ==
    [res EXCEPT !.results = <<result>> \o @,
                !.successful = IF result.success THEN @ + 1 ELSE @,
                !.failed = IF result.success THEN @ ELSE @ + 1]

RecordResult(res, result) ==
    [res EXCEPT !.results = Append(@, result),
                !.successful = IF result.success THEN @ + 1 ELSE @,
                !.failed = IF result.success THEN @ ELSE @ + 1]

\* process_file has returned: the rest of the loop body
IngestRecord ==
    /\ bpc = "ingest"
    /\ ppc = "idle"
    /\ ret # NoResult
    /\ results' = RecordResult(results, ret)
    /\ ret' = NoResult
    /\ UNCHANGED <<settings, index, ppc, file_path, source_name, pending,
                   written, lastIngest>>
    /\ UNCHANGED <<bpc, batch_inputs, batch_names, batch_top_k, similar_docs,
                   calls, request>>
    /\ UNCHANGED chunkVars

\* the for loop is over: return results
IngestDocumentsReturn ==
    /\ bpc = "ingest"
    /\ ret = NoResult
    /\ IngestPosition = Len(batch_inputs)
    /\ bpc' = "done"
    /\ ret' = [op |-> "ingest_documents", results |-> results]
    /\ UNCHANGED <<settings, index, ppc, file_path, source_name, pending,
                   written, lastIngest>>
    /\ UNCHANGED <<batch_inputs, batch_names, batch_top_k, results,
                   similar_docs, calls, request>>
    /\ UNCHANGED chunkVars

\* one pass of the for loop of batch_process_queries
BatchQueryStep ==
    /\ bpc = "query"
    /\ Len(results) < Len(batch_inputs)
    /\ \E o \in ProcessQueryOutcomes(index, batch_inputs[Len(results) + 1],
                                     batch_top_k, TRUE) :
           /\ similar_docs' = o.similar_docs
           /\ calls' = o.calls
           /\ results' = Append(results, o.result)
    /\ UNCHANGED pipeVars
    /\ UNCHANGED <<bpc, batch_inputs, batch_names, batch_top_k, request>>
    /\ UNCHANGED chunkVars

\* the for loop is over: return results
BatchQueriesReturn ==
    /\ bpc = "query"
    /\ Len(results) = Len(batch_inputs)
    /\ bpc' = "done"
    /\ ret' = [op |-> "batch_process_queries", results |-> results]
    /\ UNCHANGED <<settings, index, ppc, file_path, source_name, pending,
                   written, lastIngest>>
    /\ UNCHANGED <<batch_inputs, batch_names, batch_top_k, results,
                   similar_docs, calls, request>>
    /\ UNCHANGED chunkVars

\* process_directory: the directory is missing, or listing it raises;
\* the except branch returns []
ProcessDirectoryFails ==
    /\ bpc = "directory"
    /\ calls' = (IF DirectoryExists(request.directory_path)
                 THEN <<Call("rglob", FALSE)>>
                 ELSE <<>>)
    /\ bpc' = "done"
    /\ ret' = [op |-> "ingest_directory", results |-> <<>>]
    /\ UNCHANGED <<settings, index, ppc, file_path, source_name, pending,
                   written, lastIngest>>
    /\ UNCHANGED <<batch_inputs, batch_names, batch_top_k, results,
                   similar_docs, request>>
    /\ UNCHANGED chunkVars

\* process_directory: the supported files of the directory are listed
ProcessDirectoryList ==
    /\ bpc = "directory"
    /\ DirectoryExists(request.directory_path)
    /\ batch_inputs' = SupportedFiles(DirectoryListing(request.directory_path))
    /\ calls' = <<Call("rglob", TRUE)>>
    /\ bpc' = "files"
    /\ UNCHANGED pipeVars
    /\ UNCHANGED <<batch_names, batch_top_k, results, similar_docs, request>>
    /\ UNCHANGED chunkVars

\* the for loop of process_directory is about to call process_file
DirectoryCanCall ==
    /\ bpc = "files"
    /\ ret = NoResult
    /\ Len(results) < Len(batch_inputs)

DirectoryExtractionFails ==
    /\ DirectoryCanCall
    /\ ProcessFileExtractionFails(batch_inputs[Len(results) + 1], NoSource)

DirectoryEmbeddingFails ==
    /\ DirectoryCanCall
    /\ ProcessFileEmbeddingFails(batch_inputs[Len(results) + 1], NoSource)

DirectoryPrepare ==
    /\ DirectoryCanCall
    /\ ProcessFilePrepare(batch_inputs[Len(results) + 1], NoSource)

\* process_file has returned: results.append(result)
DirectoryRecord ==
    /\ bpc = "files"
    /\ ppc = "idle"
    /\ ret # NoResult
    /\ results' = Append(results, ret)
    /\ ret' = NoResult
    /\ UNCHANGED <<settings, index, ppc, file_path, source_name, pending,
                   written, lastIngest>>
    /\ UNCHANGED <<bpc, batch_inputs, batch_names, batch_top_k, similar_docs,
                   calls, request>>
    /\ UNCHANGED chunkVars

\* the for loop is over: return results
ProcessDirectoryReturn ==
    /\ bpc = "files"
    /\ ret = NoResult
    /\ Len(results) = Len(batch_inputs)
    /\ bpc' = "done"
    /\ ret' = [op |-> "ingest_directory", results |-> results]
    /\ UNCHANGED <<settings, index, ppc, file_path, source_name, pending,
                   written, lastIngest>>
    /\ UNCHANGED <<batch_inputs, batch_names, batch_top_k, results,
                   similar_docs, calls, request>>
    /\ UNCHANGED chunkVars

\* process_file for the next file is blocked in client.invoke_model or
\* client.index: the call was made without a deadline and never returns
IngestCallStalls ==
    /\ IngestCanCall
    /\ ppc = "idle"
    /\ FileSuffix(batch_inputs[IngestPosition + 1]) \in SupportedSuffixes
    /\ bpc' = "stalled"
    /\ UNCHANGED pipeVars
    /\ UNCHANGED <<batch_inputs, batch_names, batch_top_k, results,
                   similar_docs, calls, request>>
    /\ UNCHANGED chunkVars

\* process_query for the next query is blocked in client.invoke_model or
\* client.search, which never returns
BatchQueryStalls ==
    /\ bpc = "query"
    /\ Len(results) < Len(batch_inputs)
    /\ bpc' = "stalled"
    /\ UNCHANGED pipeVars
    /\ UNCHANGED <<batch_inputs, batch_names, batch_top_k, results,
                   similar_docs, calls, request>>
    /\ UNCHANGED chunkVars

BatchNext ==
    \/ IngestExtractionFails
    \/ IngestEmbeddingFails
    \/ IngestPrepare
    \/ IndexDocument
    \/ IndexDocumentsSucceeds
    \/ IndexDocumentsFails
    \/ IngestRecord
    \/ IngestDocumentsReturn
    \/ BatchQueryStep
    \/ BatchQueriesReturn
    \/ ProcessDirectoryFails
    \/ ProcessDirectoryList
    \/ DirectoryExtractionFails
    \/ DirectoryEmbeddingFails
    \/ DirectoryPrepare
    \/ DirectoryRecord
    \/ ProcessDirectoryReturn
    \/ IngestCallStalls
    \/ BatchQueryStalls

SpecBatch == BatchInit /\ [][BatchNext]_vars

\* the batch is one sequential program: while it has a next step, it takes it
SpecBatchFair == SpecBatch /\ WF_vars(BatchNext)

(***************************************************************************)
(* The read side of RAGPipeline (query, query_with_context, batch_query,   *)
(* get_pipeline_stats, health_check) and reset_pipeline as the CLI and the *)
(* HTTP API reach it, on an index that earlier ingestions filled and that  *)
(* remove_source empties.  Each call is one step, except batch_query,      *)
(* which takes one step per query.                                         *)
(***************************************************************************)
QueryInit ==
    /\ ChunkIdle
    /\ settings \in SettingsChoices
    /\ NoCallInFlight
    /\ index \in IndexChoices(settings)
    /\ FacadeIdle

\* no batch was started: the facade takes single calls
FacadeFree == bpc = "idle" /\ ppc = "idle"

\* RAGPipeline.query -> QueryAgent.process_query
ProcessQuery(query, top_k, include_sources) ==
    /\ FacadeFree
    /\ \E o \in ProcessQueryOutcomes(index, query, top_k, include_sources) :
           /\ similar_docs' = o.similar_docs
           /\ calls' = o.calls
           /\ ret' = o.result
    /\ request' = [command |-> "query", query |-> query, top_k |-> top_k,
                   include_sources |-> include_sources]
    /\ UNCHANGED <<settings, index, ppc, file_path, source_name, pending,
                   written, lastIngest>>
    /\ UNCHANGED <<bpc, batch_inputs, batch_names, batch_top_k, results>>
    /\ UNCHANGED chunkVars

\* process_query_with_context passing the bare question on
ProcessQueryWithContextDropped(query, context, top_k) ==
    /\ FacadeFree
    /\ \E o \in ProcessQueryOutcomes(index, query, top_k, TRUE) :
           /\ similar_docs' = o.similar_docs
           /\ calls' = o.calls
           /\ ret' = WithContextUsed(o.result, context)
    /\ request' = [command |-> "query_with_context", query |-> query,
                   context |-> context, top_k |-> top_k]
    /\ UNCHANGED <<settings, index, ppc, file_path, source_name, pending,
                   written, lastIngest>>
    /\ UNCHANGED <<bpc, batch_inputs, batch_names, batch_top_k, results>>
    /\ UNCHANGED chunkVars

\* RAGPipeline.query_with_context -> QueryAgent.process_query_with_context
ProcessQueryWithContext(query, context, top_k) ==
    /\ FacadeFree
    /\ \E o \in ProcessQueryOutcomes(index, EnhancedQuery(query, context),
                                     top_k, TRUE) :
           /\ similar_docs' = o.similar_docs
           /\ calls' = o.calls
           /\ ret' = WithContextUsed(o.result, context)
    /\ request' = [command |-> "query_with_context", query |-> query,
                   context |-> context, top_k |-> top_k]
    /\ UNCHANGED <<settings, index, ppc, file_path, source_name, pending,
                   written, lastIngest>>
    /\ UNCHANGED <<bpc, batch_inputs, batch_names, batch_top_k, results>>
    /\ UNCHANGED chunkVars

\* RAGPipeline.batch_query -> batch_process_queries: results = []
BatchQueryCall(queries, top_k) ==
    /\ FacadeFree
    /\ bpc' = "query"
    /\ batch_inputs' = queries
    /\ batch_top_k' = top_k
    /\ results' = <<>>
    /\ similar_docs' = <<>>
    /\ calls' = <<>>
    /\ ret' = NoResult
    /\ request' = [command |-> "batch_query"]
    /\ UNCHANGED <<settings, index, ppc, file_path, source_name, pending,
                   written, lastIngest>>
    /\ UNCHANGED batch_names
    /\ UNCHANGED chunkVars

\* {} and dict.get(key, default)
EmptyDict == <<>>
DictGet(d, key, default) == IF key \in DOMAIN d THEN d[key] ELSE default

RECURSIVE SizeInBytes(_)
\* ["total"]["store"]["size_in_bytes"]
SizeInBytes(idx) ==
    IF idx = {} THEN 0
    ELSE LET e == CHOOSE x \in idx : TRUE
         IN  Len(e.content) + SizeInBytes(idx \ {e})

\* get_index_stats: the two figures, or {} when client.indices.stats raises
GetIndexStats(idx, ok) ==
    IF ok
    THEN [total_documents |-> Cardinality(idx), index_size |-> SizeInBytes(idx)]
    ELSE EmptyDict

\* get_pipeline_stats
GetPipelineStats ==
    /\ FacadeFree
    /\ \E ok \in BOOLEAN :
           /\ ret' = [op |-> "get_pipeline_stats",
                      opensearch |-> GetIndexStats(index, ok),
                      pipeline_status |-> "active",
                      settings |-> settings]
           /\ calls' = <<Call("indices.stats", ok)>>
    /\ similar_docs' = <<>>
    /\ request' = [command |-> "get_pipeline_stats"]
    /\ UNCHANGED <<settings, index, ppc, file_path, source_name, pending,
                   written, lastIngest>>
    /\ UNCHANGED <<bpc, batch_inputs, batch_names, batch_top_k, results>>
    /\ UNCHANGED chunkVars

\* health_status["components"]["opensearch"]: get_index_stats has returned
OpenSearchComponent(stats) ==
    [status |-> "healthy",
     total_documents |-> DictGet(stats, "total_documents", 0)]

\* health_status["components"]["bedrock"]
BedrockComponent(ok) ==
    IF ok
    THEN [status |-> "healthy",
          embedding_dimension |-> Len(Embedding(<<"t", "e", "s", "t">>))]
    ELSE [status |-> "unhealthy", error |-> "embedding error"]

\* health_check never lowering overall_status
HealthStatusAlwaysHealthy(stats, embed_ok) ==
    [op |-> "health_check",
     overall_status |-> "healthy",
     components |-> [opensearch |-> OpenSearchComponent(stats),
                     bedrock |-> BedrockComponent(embed_ok)]]

\* health_status as health_check returns it
HealthStatus(stats, embed_ok) ==
    [op |-> "health_check",
     overall_status |-> IF embed_ok THEN "healthy" ELSE "unhealthy",
     components |-> [opensearch |-> OpenSearchComponent(stats),
                     bedrock |-> BedrockComponent(embed_ok)]]

\* health_check probing the index with a document it leaves behind
HealthCheckWritingProbe ==
    /\ FacadeFree
    /\ \E stats_ok \in BOOLEAN, embed_ok \in BOOLEAN :
           /\ ret' = HealthStatus(GetIndexStats(index, stats_ok), embed_ok)
           /\ calls' = <<Call("indices.stats", stats_ok),
                         Call("generate_embeddings", embed_ok)>>
    /\ index' = ClientIndex(index,
                     [chunk_id |-> "health_probe", content |-> <<"t">>,
                      embedding |-> Embedding(<<"t">>),
                      metadata |-> [chunk_index |-> 0, total_chunks |-> 1],
                      source |-> "health_probe"])
    /\ similar_docs' = <<>>
    /\ request' = [command |-> "health_check"]
    /\ UNCHANGED <<settings, ppc, file_path, source_name, pending,
                   written, lastIngest>>
    /\ UNCHANGED <<bpc, batch_inputs, batch_names, batch_top_k, results>>
    /\ UNCHANGED chunkVars

\* health_check
HealthCheck ==
    /\ FacadeFree
    /\ \E stats_ok \in BOOLEAN, embed_ok \in BOOLEAN :
           /\ ret' = HealthStatus(GetIndexStats(index, stats_ok), embed_ok)
           /\ calls' = <<Call("indices.stats", stats_ok),
                         Call("generate_embeddings", embed_ok)>>
    /\ similar_docs' = <<>>
    /\ request' = [command |-> "health_check"]
    /\ UNCHANGED <<settings, index, ppc, file_path, source_name, pending,
                   written, lastIngest>>
    /\ UNCHANGED <<bpc, batch_inputs, batch_names, batch_top_k, results>>
    /\ UNCHANGED chunkVars

\* reset_pipeline: logs a warning and returns True
ResetPipeline ==
    /\ ret' = [op |-> "reset_pipeline", success |-> TRUE]
    /\ calls' = <<>>
    /\ similar_docs' = <<>>
    /\ UNCHANGED <<settings, index, ppc, file_path, source_name, pending,
                   written, lastIngest>>
    /\ UNCHANGED <<bpc, batch_inputs, batch_names, batch_top_k, results>>
    /\ UNCHANGED chunkVars

\* cli.py reset: click.confirmation_option aborts the command unless the
\* caller answers yes (or passes --yes)
CliReset(confirmed) ==
    /\ FacadeFree
    /\ request' = [command |-> "reset", surface |-> "cli",
                   confirmed |-> confirmed]
    /\ IF confirmed
       THEN ResetPipeline
       ELSE /\ ret' = [op |-> "aborted"]
            /\ calls' = <<>>
            /\ similar_docs' = <<>>
            /\ UNCHANGED <<settings, index, ppc, file_path, source_name,
                           pending, written, lastIngest>>
            /\ UNCHANGED <<bpc, batch_inputs, batch_names, batch_top_k,
                           results>>
            /\ UNCHANGED chunkVars

\* api_service.py POST /reset: the handler takes no argument and calls
\* reset_pipeline, whatever the caller sent along
HttpReset(confirmed) ==
    /\ FacadeFree
    /\ request' = [command |-> "reset", surface |-> "http",
                   confirmed |-> confirmed]
    /\ ResetPipeline

\* RAGPipeline.remove_source, between two calls of the read side
RemoveSourceCall(source) == FacadeFree /\ RemoveSource(source)

QueryNext ==
    \/ \E query \in Queries, top_k \in 0..MaxTopK, include_sources \in BOOLEAN :
           ProcessQuery(query, top_k, include_sources)
    \/ \E query \in Queries, context \in Contexts, top_k \in 0..MaxTopK :
           ProcessQueryWithContext(query, context, top_k)
    \/ \E queries \in SeqsUpTo(Queries, MaxBatch), top_k \in 0..MaxTopK :
           BatchQueryCall(queries, top_k)
    \/ BatchQueryStep
    \/ BatchQueriesReturn
    \/ GetPipelineStats
    \/ HealthCheck
    \/ \E confirmed \in BOOLEAN : CliReset(confirmed)
    \/ \E confirmed \in BOOLEAN : HttpReset(confirmed)
    \/ \E source \in Sources : RemoveSourceCall(source)

SpecQuery == QueryInit /\ [][QueryNext]_vars

(***************************************************************************)
(* Properties of split_text_into_chunks, checked under SpecChunk.          *)
(***************************************************************************)
ValidConfig == chunk_size > chunk_overlap /\ chunk_overlap >= 0

\* the characters of text window i covers, and their positions lo+1..hi
WindowLo(i) == SliceBound(windows[i].start, Len(text))
WindowHi(i) == SliceBound(windows[i].end, Len(text))
WindowText(i) == PySlice(text, windows[i].start, windows[i].end)

\* C1: for every text and chunk_size > chunk_overlap >= 0, every returned
\* chunk has length <= chunk_size.
C1_ChunkLengthBounded ==
    ValidConfig => \A i \in 1..Len(chunks) : Len(chunks[i]) <= chunk_size

\* chunks joined in order, each but the first without its first n characters
RECURSIVE JoinWithoutOverlap(_, _)
JoinWithoutOverlap(cs, n) ==
    IF cs = <<>> THEN <<>>
    ELSE IF Len(cs) = 1 THEN cs[1]
    ELSE LET last == cs[Len(cs)]
         IN  JoinWithoutOverlap(SubSeq(cs, 1, Len(cs) - 1), n)
                 \o SubSeq(last, n + 1, Len(last))

\* C2 as claimed: for a cleaned text and chunk_size > chunk_overlap >= 0 the
\* returned chunks, joined with the duplicated overlap removed, are the text.
C2_ReconstructsCleanedText ==
    (cpc = "done" /\ ValidConfig /\ clean_text(text) = text)
        => JoinWithoutOverlap(chunks, chunk_overlap) = text

AllWindowsClean ==
    \A i \in 1..Len(windows) : clean_text(WindowText(i)) = WindowText(i)

\* C2 amended: for chunk_size > chunk_overlap >= 0 and a text none of whose
\* windows is changed by the per-chunk clean_text (no window begins or ends
\* with whitespace), the returned chunks, joined with the duplicated overlap
\* removed, are the text.
C2_ReconstructsWhenWindowsClean ==
    (cpc = "done" /\ ValidConfig /\ AllWindowsClean)
        => JoinWithoutOverlap(chunks, chunk_overlap) = text

C2_Witness ==
    /\ cpc = "done" /\ ValidConfig /\ AllWindowsClean
    /\ chunk_overlap >= 1
    /\ Len(chunks) >= 3
    /\ \E i \in 1..Len(text) : text[i] = " "
    /\ JoinWithoutOverlap(chunks, chunk_overlap) = text

\* C3: for chunk_size > chunk_overlap >= 0, consecutive windows share
\* exactly chunk_overlap characters of the text: the last chunk_overlap
\* positions of window i are the first chunk_overlap positions of window i+1.
C3_ConsecutiveWindowsOverlap ==
    ValidConfig =>
        \A i \in 1..(Len(windows) - 1) :
            /\ WindowLo(i) <= WindowLo(i + 1)
            /\ WindowHi(i) <= WindowHi(i + 1)
            /\ WindowHi(i) - WindowLo(i + 1) = chunk_overlap
            /\ WindowHi(i) - WindowLo(i) >= chunk_overlap
            /\ WindowHi(i + 1) - WindowLo(i + 1) >= chunk_overlap
            /\ SubSeq(WindowText(i), Len(WindowText(i)) - chunk_overlap + 1,
                      Len(WindowText(i)))
                   = SubSeq(WindowText(i + 1), 1, chunk_overlap)

C3_Witness ==
    /\ cpc = "done" /\ ValidConfig
    /\ chunk_overlap >= 1
    /\ Len(windows) >= 3
    /\ WindowHi(2) - WindowLo(3) = chunk_overlap

\* C4: window 0 starts at 0, every later window starts at the previous
\* window's start plus chunk_size - chunk_overlap, and each window is
\* the range [start, start + chunk_size).
C4_WindowStride ==
    ValidConfig =>
        \A i \in 1..Len(windows) :
            /\ windows[i].start =
                   (IF i = 1 THEN 0
                    ELSE windows[i - 1].start + chunk_size - chunk_overlap)
            /\ windows[i].end = windows[i].start + chunk_size

\* C5: the empty string gives no chunk; a text shorter than chunk_size gives
\* one chunk, the whole cleaned text, or none when the cleaned text is empty.
C5_EmptyAndShortInput ==
    cpc = "done" =>
        /\ text = <<>> => chunks = <<>>
        /\ Len(text) < chunk_size =>
               chunks = (IF clean_text(text) = <<>> THEN <<>>
                         ELSE <<clean_text(text)>>)

C5_Witness ==
    /\ cpc = "done"
    /\ Len(text) = 3 /\ Len(text) < chunk_size
    /\ clean_text(text) # text
    /\ chunks = <<clean_text(text)>>

C5_WitnessBlank ==
    /\ cpc = "done"
    /\ 0 < Len(text) /\ Len(text) < chunk_size
    /\ chunks = <<>>

\* C6: with chunk_size <= chunk_overlap the call is rejected before the loop
\* body runs: no window is sliced, no chunk is produced and no list returned.
C6_RejectsBadConfig ==
    chunk_size <= chunk_overlap =>
        /\ windows = <<>>
        /\ chunks = <<>>
        /\ cpc # "done"

(***************************************************************************)
(* Properties of ingestion and removal, checked under Spec.                *)
(***************************************************************************)
\* a step in which process_file returns success
ProcessFileReturnsSuccess ==
    /\ ppc = "indexing"
    /\ ppc' = "idle"
    /\ ret'.success

\* C7: a process_file that repeats the last successful process_file (same
\* file, same source, the index untouched in between) assigns the same set
\* of chunk ids and leaves the document count where the first left it.
C7_ReingestIsIdempotent ==
    [][(/\ ProcessFileReturnsSuccess
        /\ lastIngest # NoIngest
        /\ lastIngest.file_path = file_path
        /\ lastIngest.source = source_name)
           => /\ lastIngest'.ids = lastIngest.ids
              /\ Cardinality(index') = lastIngest.count]_vars

\* (chunk_id, source, chunk_index) of every persisted entry and of every
\* document process_file has built and is writing
AssignedIds ==
    { [chunk_id |-> e.chunk_id, source |-> e.source,
       chunk_index |-> e.metadata.chunk_index] : e \in index }
    \cup
    { [chunk_id |-> pending[i].chunk_id, source |-> pending[i].source,
       chunk_index |-> pending[i].metadata.chunk_index] :
          i \in 1..Len(pending) }

\* C8: after any sequence of ingestions and removals, chunks that differ in
\* source or in chunk_index never share a chunk_id, among the persisted
\* entries and the documents process_file is writing.
C8_ChunkIdsUnique ==
    \A a, b \in AssignedIds :
        a.chunk_id = b.chunk_id
            => a.source = b.source /\ a.chunk_index = b.chunk_index

C8_Witness ==
    /\ ret # NoResult /\ ret.op = "remove_source" /\ ret.success
    /\ ret.deleted >= 1
    /\ ppc = "indexing" /\ written = 1 /\ Len(pending) = 2
    /\ \E a, b \in index :
           /\ a.source = "doc.txt_1" /\ b.source = "doc.txt"
           /\ a.metadata.chunk_index # b.metadata.chunk_index
    /\ Cardinality(index) >= 3

\* C9: a remove_source(S) that returns true leaves no entry of source S,
\* lowers the document count by the number of entries S had, and leaves the
\* entries of every other source as they were.
C9_RemoveSourceDeletesAll ==
    [][\A S \in Sources :
          (RemoveSource(S) /\ ret'.success)
              => /\ \A e \in index' : e.source # S
                 /\ Cardinality(index') =
                        Cardinality(index)
                            - Cardinality({e \in index : e.source = S})
                 /\ {e \in index' : e.source # S}
                        = {e \in index : e.source # S}]_vars

C9_Witness ==
    /\ ret # NoResult /\ ret.op = "remove_source" /\ ret.success
    /\ ret.deleted >= 2
    /\ \A e \in index : e.source # ret.source
    /\ Cardinality(index) >= 2

\* C10: when chunking yields no chunk, process_file returns a failure with
\* the reason "no content".
C10_NoContentIsFailure ==
    (/\ ret # NoResult /\ ret.op = "process_file"
     /\ "total_chunks" \in DOMAIN ret
     /\ ret.total_chunks = 0)
        => /\ ~ret.success
           /\ "error" \in DOMAIN ret
           /\ ret.error = "no content"


(***************************************************************************)
(* Claims about the batch calls, checked under SpecBatch.                  *)
(***************************************************************************)
IngestDocumentsReturned == ret.op = "ingest_documents"

\* C11: when ingest_documents returns for N files, every file has been
\* attempted (one result each), failed is the number of results with
\* success false, successful the number with success true, and
\* successful + failed = total_files = N.
C11_IngestCountsEveryItem ==
    IngestDocumentsReturned =>
        LET r == ret.results
            n == Len(batch_inputs)
        IN  /\ Len(r.results) = n
            /\ r.failed =
                   Cardinality({i \in 1..Len(r.results) :
                                   ~r.results[i].success})
            /\ r.successful =
                   Cardinality({i \in 1..Len(r.results) :
                                   r.results[i].success})
            /\ r.successful + r.failed = r.total_files
            /\ r.total_files = n

\* a batch of two whose first file failed and whose second succeeded
C11_Witness ==
    /\ IngestDocumentsReturned
    /\ Len(batch_inputs) = 2
    /\ ~ret.results.results[1].success
    /\ ret.results.results[2].success
    /\ ret.results.failed = 1
    /\ ret.results.successful = 1


BatchQueriesReturned == ret.op = "batch_process_queries"

\* C12: ingest_documents and batch_process_queries return exactly one result
\* per input, in input order: results[i].file_path is file_paths[i], and
\* results[i].query is queries[i].
C12_ResultsFollowInputOrder ==
    /\ IngestDocumentsReturned =>
           /\ Len(ret.results.results) = Len(batch_inputs)
           /\ \A i \in 1..Len(batch_inputs) :
                  ret.results.results[i].file_path = batch_inputs[i]
    /\ BatchQueriesReturned =>
           /\ Len(ret.results) = Len(batch_inputs)
           /\ \A i \in 1..Len(batch_inputs) :
                  ret.results[i].query = batch_inputs[i]

\* a batch of two different queries, the first answered and the second not
C12_Witness ==
    /\ BatchQueriesReturned
    /\ Len(batch_inputs) = 2
    /\ batch_inputs[1] # batch_inputs[2]
    /\ ret.results[1].success
    /\ ~ret.results[2].success


(***************************************************************************)
(* Claims about the read side and reset, checked under SpecQuery.          *)
(***************************************************************************)
\* the last call was a process_query that got as far as the search
SearchWasMade ==
    /\ ret.op = "process_query"
    /\ Len(calls) >= 2
    /\ calls[2].call = "search"

\* C13: a process_query whose search brings back no match returns a
\* dictionary (it does not raise) with success false, a non-empty response
\* message and an empty sources list.
C13_NoMatchIsFailure ==
    (SearchWasMade /\ similar_docs = <<>>) =>
        /\ ret.success = FALSE
        /\ ret.sources = <<>>
        /\ ret.response # ""

\* a query on the empty index: the search succeeded and found nothing
C13_Witness ==
    /\ SearchWasMade
    /\ calls[2].ok
    /\ similar_docs = <<>>
    /\ index = {}
    /\ ~ret.success


\* the last call was query(query, top_k, include_sources=True) and succeeded
QueryWithSourcesSucceeded ==
    /\ ret.op = "process_query"
    /\ request.command = "query"
    /\ request.include_sources
    /\ ret.success

\* C14: a successful process_query(query, k, include_sources=True) returns
\* at most k sources; they are the hits of the index search, one source per
\* hit and in the order of the hits, which is by non-increasing score;
\* nothing is re-ranked or filtered out.
C14_SourcesFollowSearchOrder ==
    QueryWithSourcesSucceeded =>
        /\ similar_docs \in
               SearchResults(index, Embedding(clean_text(request.query)),
                             request.top_k)
        /\ Len(ret.sources) <= request.top_k
        /\ Len(ret.sources) = Len(similar_docs)
        /\ \A i \in 1..Len(ret.sources) :
               /\ ret.sources[i].chunk_id = similar_docs[i].chunk_id
               /\ ret.sources[i].source = similar_docs[i].source
               /\ ret.sources[i].score = similar_docs[i].score
        /\ \A i \in 1..(Len(ret.sources) - 1) :
               ret.sources[i].score >= ret.sources[i + 1].score

\* two sources cut out of an index that holds more entries than top_k
C14_Witness ==
    /\ QueryWithSourcesSucceeded
    /\ request.top_k = 2
    /\ Len(ret.sources) = 2
    /\ Cardinality(index) > 2


\* the last call was query_with_context
QueryWithContextReturned ==
    /\ ret.op = "process_query"
    /\ request.command = "query_with_context"

\* C15: process_query_with_context(q, c, k) returns what some run of
\* process_query("Context: c\n\nQuestion: q", k) on the same index returns
\* as success, response and sources, with the one added key context_used
\* holding c, and it makes the collaborator calls of that run and no other.
C15_WithContextIsPlainQuery ==
    QueryWithContextReturned =>
        LET enhanced ==
                <<"C", "o", "n", "t", "e", "x", "t", ":", " ">>
                    \o request.context
                    \o <<"\n", "\n",
                         "Q", "u", "e", "s", "t", "i", "o", "n", ":", " ">>
                    \o request.query
        IN  \E o \in ProcessQueryOutcomes(index, enhanced, request.top_k, TRUE) :
                /\ ret.success = o.result.success
                /\ ret.response = o.result.response
                /\ ret.sources = o.result.sources
                /\ DOMAIN ret = DOMAIN o.result \cup {"context_used"}
                /\ ret.context_used = request.context
                /\ calls = o.calls

\* a query with context that was answered from at least one source
C15_Witness ==
    /\ QueryWithContextReturned
    /\ ret.success
    /\ ret.sources # <<>>
    /\ ret.context_used = request.context


HealthCheckReturned == ret.op = "health_check"

\* C16: health_check always reports a status for both components,
\* opensearch and bedrock; overall_status is 'unhealthy' exactly when at
\* least one component is 'unhealthy'; every unhealthy component carries a
\* non-empty error text.
C16_HealthReportsBothComponents ==
    HealthCheckReturned =>
        /\ DOMAIN ret.components = {"opensearch", "bedrock"}
        /\ \A c \in DOMAIN ret.components :
               /\ ret.components[c].status \in {"healthy", "unhealthy"}
               /\ ret.components[c].status = "unhealthy" =>
                      /\ "error" \in DOMAIN ret.components[c]
                      /\ ret.components[c].error # ""
        /\ ret.overall_status \in {"healthy", "unhealthy"}
        /\ ret.overall_status = "unhealthy" <=>
               \E c \in DOMAIN ret.components :
                   ret.components[c].status = "unhealthy"

\* a health check during which the embedding call failed
C16_Witness ==
    /\ HealthCheckReturned
    /\ ~calls[2].ok
    /\ ret.components.bedrock.status = "unhealthy"
    /\ ret.overall_status = "unhealthy"

\* C17: when the index statistics call fails during health_check, the
\* opensearch component is 'unhealthy' with error text and overall_status is
\* 'unhealthy'.
C17_StatsFailureIsUnhealthy ==
    (HealthCheckReturned /\ calls[1].call = "indices.stats" /\ ~calls[1].ok) =>
        /\ ret.components.opensearch.status = "unhealthy"
        /\ "error" \in DOMAIN ret.components.opensearch
        /\ ret.overall_status = "unhealthy"


ResetPipelineReturned == ret.op = "reset_pipeline"

\* C18: after reset_pipeline has returned true, the index holds no entries.
C18_ResetEmptiesIndex ==
    (ResetPipelineReturned /\ ret.success) => index = {}

\* C19: on the CLI reset command and on HTTP POST /reset, reset_pipeline is
\* invoked only after the caller has explicitly confirmed.
C19_ResetNeedsConfirmation ==
    ResetPipelineReturned =>
        /\ request.command = "reset"
        /\ request.confirmed

\* the calls of the read side
ReadCommands ==
    {"query", "batch_query", "query_with_context", "get_pipeline_stats",
     "health_check"}

\* C20: a step of query, batch_query, query_with_context, get_pipeline_stats
\* or health_check leaves the entries of the index as they were, whether
\* the call succeeds or fails.
C20_ReadSideLeavesIndex ==
    [][(request'.command \in ReadCommands /\ ret'.op # "remove_source") =>
           index' = index]_vars

\* a query that failed in its last collaborator call, on a filled index
C20_Witness ==
    /\ ret.op = "process_query"
    /\ request.command = "query"
    /\ ~ret.success
    /\ ~calls[Len(calls)].ok
    /\ index # {}


\* C21: when the index search itself fails during process_query, the
\* dictionary returned has success false and a response that describes the
\* index error; it is not the 'no relevant information' dictionary a
\* search without matches gives.
C21_SearchFailureIsSurfaced ==
    (SearchWasMade /\ ~calls[2].ok) =>
        /\ ret.success = FALSE
        /\ ret # NoMatchResult(ret.query)


IngestDirectoryReturned == ret.op = "ingest_directory"

\* what ingest_directory returns for a directory that holds no file
EmptyDirectoryReturn == [op |-> "ingest_directory", results |-> <<>>]

\* C22: every public operation of RAGPipeline that fails returns a result
\* that says so; in particular ingest_directory on a missing or unreadable
\* directory returns something other than what it returns for an empty
\* directory.
C22_MissingDirectoryIsReported ==
    (IngestDirectoryReturned /\ ~DirectoryExists(request.directory_path)) =>
        ret # EmptyDirectoryReturn


\* C23: a batch (ingest_documents or batch_process_queries) eventually
\* completes even when an embedding or index call made for one of its items
\* never returns: a per-call deadline cuts the call off and the loop goes on.
C23_BatchEventuallyCompletes == <>(bpc = "done")


\* the attempts at the embedding call the last operation made
EmbeddingAttempts ==
    Cardinality({i \in 1..Len(calls) : calls[i].call = "generate_embeddings"})

\* C24: a failing embedding call is retried before the query is reported as
\* failed: process_query whose first embedding attempt failed does not
\* return success false without having made a further attempt.
C24_EmbeddingFailureIsRetried ==
    (/\ ret.op = "process_query"
     /\ calls # <<>>
     /\ calls[1].call = "generate_embeddings"
     /\ ~calls[1].ok
     /\ ~ret.success) =>
        EmbeddingAttempts > 1


(***************************************************************************)
(* Claims about clean_text, checked under SpecClean.                       *)
(***************************************************************************)
\* no two whitespace characters in a row
NoWhitespaceRun(t) ==
    \A i \in 1..(Len(t) - 1) : ~(t[i] \in Whitespace /\ t[i + 1] \in Whitespace)

\* no whitespace at either end
Trimmed(t) ==
    t # <<>> => (t[1] \notin Whitespace /\ t[Len(t)] \notin Whitespace)

\* C25: the output of clean_text has no run of two or more whitespace
\* characters and no leading or trailing whitespace, and clean_text maps it
\* to itself: clean_text(clean_text(x)) = clean_text(x).
C25_CleanTextIsIdempotent ==
    ret.op = "clean_text" =>
        /\ NoWhitespaceRun(ret.text)
        /\ Trimmed(ret.text)
        /\ clean_text(ret.text) = ret.text


(***************************************************************************)
(* Termination of split_text_into_chunks, checked under SpecChunk.         *)
(***************************************************************************)
\* chunk_size >= 1 and 0 <= chunk_overlap < chunk_size
TerminatingConfig == chunk_size >= 1 /\ ValidConfig

\* C26: for every text and every chunk_size >= 1 with
\* 0 <= chunk_overlap < chunk_size, the loop of split_text_into_chunks
\* terminates: every pass leaves start further on than the pass before, no
\* pass is made once start >= len(text), the
\* loop makes no more passes than the text has characters (so the cap
\* MaxIter on the passes never stops it) and appends at most one chunk per
\* pass, and it returns only with start >= len(text).
C26_ChunkLoopTerminates ==
    TerminatingConfig =>
        /\ \A i \in 1..Len(windows) :
               /\ windows[i].end > (IF i = 1 THEN 0 ELSE windows[i - 1].end)
               /\ (IF i = 1 THEN 0 ELSE windows[i - 1].end) < Len(text)
        /\ start = (IF windows = <<>> THEN 0 ELSE windows[Len(windows)].end)
        /\ Len(windows) <= Len(text)
        /\ Len(chunks) <= Len(windows)
        /\ Len(windows) < MaxIter
        /\ cpc = "done" => start >= Len(text)

\* a loop that returned after three passes
C26_Witness ==
    /\ cpc = "done"
    /\ TerminatingConfig
    /\ Len(windows) = 3
    /\ start >= Len(text)


\* C27: when index_documents fails part-way through a document, process_file
\* reports success=false and the index holds no entry of that ingestion:
\* none of the chunk ids the failed call assigned is stored.
C27_FailedWriteLeavesNothing ==
    [][IndexDocumentsFails =>
          /\ ret'.success = FALSE
          /\ \A i \in 1..Len(pending) :
                 \A e \in index' : e.id # pending[i].chunk_id]_vars


\* process_file returned through its except branch: extraction or embedding
\* raised
ProcessFileRaised ==
    /\ ppc = "idle"
    /\ ppc' = "idle"
    /\ ret'.op = "process_file"
    /\ lastIngest' = NoIngest

\* C28: when text extraction fails, or the embedding of a chunk fails,
\* process_file returns success=false with the error text and leaves the
\* index exactly as it was before the call: no chunk of the document is
\* written.
C28_EarlyFailureLeavesIndex ==
    [][ProcessFileRaised =>
          /\ ret'.success = FALSE
          /\ ret'.error # ""
          /\ index' = index]_vars

\* a call whose embedding failed, made on an index that holds documents
C28_Witness ==
    /\ ret.op = "process_file"
    /\ ret.success = FALSE
    /\ "error" \in DOMAIN ret
    /\ ret.error = "embedding error"
    /\ index # {}

\* a call whose extraction failed, made on an index that holds documents
C28_WitnessExtraction ==
    /\ ret.op = "process_file"
    /\ ret.success = FALSE
    /\ "error" \in DOMAIN ret
    /\ ret.error = "Unsupported file type: .rtf"
    /\ index # {}


\* the entries of the index that carry a chunk id of the call in flight
PendingEntries == {e \in index : e.id \in PendingIds}

\* C29: under every interleaving of process_file for source S with
\* remove_source(S), when process_file returns success the index holds all n
\* chunks of that ingestion or none of them, never a strict non-empty subset.
C29_AllChunksOrNone ==
    [][IndexDocumentsSucceeds =>
          Cardinality(PendingEntries) \in {0, Len(pending)}]_vars


\* the fields the model QueryResponse declares, none with a default
QueryResponseFields ==
    {"success", "response", "sources", "query", "num_sources", "avg_score"}

\* C30: every result process_query returns, on success, on no-match and on
\* error, carries all the fields QueryResponse requires, so POST /query can
\* build its answer from it.
C30_ResultFitsQueryResponse ==
    ret.op = "process_query" => QueryResponseFields \subseteq DOMAIN ret

====
